---------------------------- MODULE Spec2Model ----------------------------
(***************************************************************************)
(* A model of the video friction analysis application: the three-stage     *)
(* analysis pipeline of app.py (upload path and rerun path), the document  *)
(* store and the binary storage it writes to, the stage runner of          *)
(* vertex_service.py and the regional fallback executor of                 *)
(* retry_handler.py.                                                       *)
(*                                                                         *)
(* Names and texts are sequences of tokens, so that formatting and         *)
(* parsing are computed and not assumed.  Python values are records        *)
(* tagged by their type in the field t.                                    *)
(***************************************************************************)
EXTENDS Integers, Sequences, FiniteSets, TLC

(***************************************************************************)
(* Bounds of the model.                                                    *)
(***************************************************************************)
\* Pipeline executions (uploads and reruns together) started in a behaviour.
MaxRuns == 3

\* The browser sessions; st.session_state is per session.
Sessions == {"s1", "s2"}

\* The names of the files a user uploads (uploaded_file.name).
FileNames == {<<"a.mp4">>}

(***************************************************************************)
(* Python values.                                                          *)
(***************************************************************************)
PyNone == [t |-> "None"]

PyStr(s) == [t |-> "str", s |-> s]

\* The empty dict literal {}.
PyEmptyDict == [t |-> "dict", items |-> <<>>]

(***************************************************************************)
(* json.loads over token sequences.  A text is a sequence of tokens; the   *)
(* punctuation tokens are { } [ ] : and , ; a token of StringToks is a     *)
(* JSON string literal; null, true and false are the JSON literals; any    *)
(* other token is prose, which no JSON value contains.                     *)
(***************************************************************************)
StringToks ==
    {"\"schema\"", "\"video_analysis\"", "\"user_story\"", "\"task_backlog\""}

ParseFail == [ok |-> FALSE, val |-> PyNone, next |-> 0]

RECURSIVE ParseValue(_, _)
RECURSIVE ParseMembers(_, _, _)
RECURSIVE ParseElements(_, _, _)

\* The members of an object after "{" or after ",": STRING ":" value, then
\* "," with more members or "}".
ParseMembers(toks, i, acc) ==
    IF i + 1 > Len(toks) \/ toks[i] \notin StringToks \/ toks[i + 1] # ":"
    THEN ParseFail
    ELSE LET v == ParseValue(toks, i + 2) IN
         IF ~v.ok \/ v.next > Len(toks) THEN ParseFail
         ELSE LET items == Append(acc, <<toks[i], v.val>>) IN
              IF toks[v.next] = "}"
              THEN [ok |-> TRUE, val |-> [t |-> "dict", items |-> items],
                    next |-> v.next + 1]
              ELSE IF toks[v.next] = ","
              THEN ParseMembers(toks, v.next + 1, items)
              ELSE ParseFail

\* The elements of an array after "[" or after ",".
ParseElements(toks, i, acc) ==
    LET v == ParseValue(toks, i) IN
    IF ~v.ok \/ v.next > Len(toks) THEN ParseFail
    ELSE LET elems == Append(acc, v.val) IN
         IF toks[v.next] = "]"
         THEN [ok |-> TRUE, val |-> [t |-> "list", elems |-> elems],
               next |-> v.next + 1]
         ELSE IF toks[v.next] = ","
         THEN ParseElements(toks, v.next + 1, elems)
         ELSE ParseFail

\* One JSON value starting at token i; next is the token after it.
ParseValue(toks, i) ==
    IF i > Len(toks) THEN ParseFail
    ELSE IF toks[i] = "null"
    THEN [ok |-> TRUE, val |-> PyNone, next |-> i + 1]
    ELSE IF toks[i] = "true"
    THEN [ok |-> TRUE, val |-> [t |-> "bool", b |-> TRUE], next |-> i + 1]
    ELSE IF toks[i] = "false"
    THEN [ok |-> TRUE, val |-> [t |-> "bool", b |-> FALSE], next |-> i + 1]
    ELSE IF toks[i] \in StringToks
    THEN [ok |-> TRUE, val |-> PyStr(toks[i]), next |-> i + 1]
    ELSE IF toks[i] = "{"
    THEN IF i + 1 <= Len(toks) /\ toks[i + 1] = "}"
         THEN [ok |-> TRUE, val |-> PyEmptyDict, next |-> i + 2]
         ELSE ParseMembers(toks, i + 1, <<>>)
    ELSE IF toks[i] = "["
    THEN IF i + 1 <= Len(toks) /\ toks[i + 1] = "]"
         THEN [ok |-> TRUE, val |-> [t |-> "list", elems |-> <<>>],
               next |-> i + 2]
         ELSE ParseElements(toks, i + 1, <<>>)
    ELSE ParseFail

\* A json.loads that stops at the end of the first value and takes what
\* follows for granted.
JsonLoads_IgnoresExtraData(text) ==
    LET v == ParseValue(text, 1) IN
    IF v.ok THEN [ok |-> TRUE, val |-> v.val]
    ELSE [ok |-> FALSE, val |-> PyNone]

\* json.loads(text): the value, or JSONDecodeError (ok = FALSE) when the text
\* is no JSON value or is followed by extra data.
JsonLoads(text) ==
    LET v == ParseValue(text, 1) IN
    IF v.ok /\ v.next = Len(text) + 1
    THEN [ok |-> TRUE, val |-> v.val]
    ELSE [ok |-> FALSE, val |-> PyNone]

(***************************************************************************)
(* Settings (config/settings.py) and names.                                *)
(***************************************************************************)
\* Settings.REGIONS, the default of the REGIONS environment variable.
REGIONS == <<"us-central1", "europe-west4", "asia-east1">>

\* The keys of VertexService.schemas.
Schemas == {"video_analysis", "user_story", "task_backlog"}

\* str(n) of a timestamp, one token.
DecimalStr(n) ==
    <<"1", "2", "3", "4", "5", "6", "7", "8", "9", "10", "11", "12", "13",
      "14", "15", "16", "17", "18", "19", "20">>[n]

\* SecurityUtils.sanitize_filename: Path(filename).name, the last component
\* of a name given as its sequence of path components.
SanitizeFilename(name) == <<name[Len(name)]>>

\* The blob name below "videos/": f"{timestamp}_{safe_filename}".
StoredName(timestamp, safe_filename) ==
    <<DecimalStr(timestamp), "_">> \o safe_filename

\* name.split('_', 1)[1]: what follows the first "_" token of a name that
\* holds one.
RECURSIVE AfterUnderscore(_)
AfterUnderscore(name) ==
    IF name = <<>> THEN <<>>
    ELSE IF Head(name) = "_" THEN Tail(name)
    ELSE AfterUnderscore(Tail(name))

HasUnderscore(name) == \E i \in 1..Len(name) : name[i] = "_"

\* StorageService.get_public_url of the blob "videos/<name>".
PublicUrl(name) ==
    PyStr(<<"https://storage.googleapis.com/", "videos/">> \o name)

(***************************************************************************)
(* The storage service.  blobs is the set of blob names below "videos/".   *)
(***************************************************************************)
\* StorageService.upload_video.  valid: SecurityUtils.validate_file accepts
\* the file; raises: a storage call raises.  The result holds the blobs
\* after the call.
UploadVideo(blobs, file_name, timestamp, valid, raises) ==
    LET safe_filename == SanitizeFilename(file_name)
        exists == \E b \in blobs :
                     HasUnderscore(b) /\ AfterUnderscore(b) = safe_filename
        blob_name == StoredName(timestamp, safe_filename)
    IN  IF ~valid
        THEN [success |-> FALSE, url |-> PyNone,
              error |-> PyStr("File type not allowed"), blobs |-> blobs]
        ELSE IF exists
        THEN [success |-> FALSE, url |-> PyNone,
              error |-> PyStr("Video already exists"), blobs |-> blobs]
        ELSE IF raises
        THEN [success |-> FALSE, url |-> PyNone,
              error |-> PyStr("Unexpected error during upload"),
              blobs |-> blobs]
        ELSE [success |-> TRUE, url |-> PublicUrl(blob_name),
              error |-> PyNone, blobs |-> blobs \cup {blob_name}]

\* A get_video_url that reports success without a URL.
GetVideoUrl_NoReference(blobs, video_name, raises) ==
    [success |-> TRUE, url |-> PyNone, error |-> PyNone]

\* StorageService.get_video_url.
GetVideoUrl(blobs, video_name, raises) ==
    IF raises
    THEN [success |-> FALSE, url |-> PyNone,
          error |-> PyStr("Error getting video URL")]
    ELSE IF video_name \notin blobs
    THEN [success |-> FALSE, url |-> PyNone,
          error |-> PyStr("Video not found in storage")]
    ELSE [success |-> TRUE, url |-> PublicUrl(video_name), error |-> PyNone]

\* StorageService.delete_video.  raises: a storage call raises.
DeleteVideo(blobs, video_name, raises) ==
    IF raises
    THEN [success |-> FALSE, error |-> PyStr("Error deleting video"),
          blobs |-> blobs]
    ELSE IF video_name \notin blobs
    THEN [success |-> FALSE, error |-> PyStr("Video not found"),
          blobs |-> blobs]
    ELSE [success |-> TRUE, error |-> PyNone, blobs |-> blobs \ {video_name}]

(***************************************************************************)
(* The document store.  store maps the key of every existing document to   *)
(* the document; a document maps every field name to its value, Absent for *)
(* a field the document does not hold.                                     *)
(***************************************************************************)
Fields ==
    {"video_name", "video_url", "status", "timestamp", "custom_prompt",
     "error", "analyses_results"}

Absent == [t |-> "absent"]

\* firestore.SERVER_TIMESTAMP as the server resolves it at time n.
ServerTimestamp(n) == [t |-> "timestamp", n |-> n]

EmptyDoc == [f \in Fields |-> Absent]

\* set(data) keeping the fields data does not name, as a merge would.
DocSet_KeepsOldFields(docs, key, data) ==
    LET old == IF key \in DOMAIN docs THEN docs[key]
               ELSE [f \in Fields |-> Absent] IN
    [k \in DOMAIN docs \cup {key} |->
        IF k = key
        THEN [f \in Fields |-> IF f \in DOMAIN data THEN data[f] ELSE old[f]]
        ELSE docs[k]]

\* DocumentReference.set(data): the document becomes exactly data.
DocSet(docs, key, data) ==
    [k \in DOMAIN docs \cup {key} |->
        IF k = key
        THEN [f \in Fields |-> IF f \in DOMAIN data THEN data[f] ELSE Absent]
        ELSE docs[k]]

\* DocumentReference.set(data, merge=True): the fields of data replace those
\* of the document, which is created when it does not exist.
DocSetMerge(docs, key, data) ==
    LET old == IF key \in DOMAIN docs THEN docs[key] ELSE EmptyDoc IN
    [k \in DOMAIN docs \cup {key} |->
        IF k = key
        THEN [f \in Fields |-> IF f \in DOMAIN data THEN data[f] ELSE old[f]]
        ELSE docs[k]]

\* dict.get(key, default) of a dict given as a function of its keys.
DictGet(d, key, default) == IF key \in DOMAIN d THEN d[key] ELSE default

\* The document FirestoreService.save_analysis builds.
SaveAnalysisDoc(video_name, analysis_result, video_url, n) ==
    [video_name |-> PyStr(video_name),
     video_url |-> video_url,
     timestamp |-> ServerTimestamp(n),
     status |-> PyStr("completed"),
     analyses_results |->
        [t |-> "dict",
         video_analysis |-> DictGet(analysis_result, "video_analysis", PyEmptyDict),
         user_story |-> DictGet(analysis_result, "user_story", PyEmptyDict),
         task_backlog |-> DictGet(analysis_result, "task_backlog", PyEmptyDict)]]

\* FirestoreService.save_analysis.  raises: the write raises.
SaveAnalysis(docs, video_name, analysis_result, video_url, n, raises) ==
    IF raises
    THEN [success |-> FALSE, error |-> PyStr("Error saving analysis"),
          docs |-> docs]
    ELSE [success |-> TRUE, error |-> PyNone,
          docs |-> DocSet(docs, video_name,
                          SaveAnalysisDoc(video_name, analysis_result,
                                          video_url, n))]

\* FirestoreService.delete_analysis.  raises: the delete raises.  Deleting
\* a document that does not exist succeeds.
DeleteAnalysis(docs, video_name, raises) ==
    IF raises
    THEN [success |-> FALSE, error |-> PyStr("Error deleting analysis"),
          docs |-> docs]
    ELSE [success |-> TRUE, error |-> PyNone,
          docs |-> [k \in DOMAIN docs \ {video_name} |-> docs[k]]]

(***************************************************************************)
(* The stage runner (services/vertex_service.py).  The held client,        *)
(* VertexService.model, is NoModel or the schema name it was built with.   *)
(***************************************************************************)
NoModel == "None"

\* The JSON string literal of a schema name.
SchemaTok ==
    [video_analysis |-> "\"video_analysis\"",
     user_story |-> "\"user_story\"",
     task_backlog |-> "\"task_backlog\""]

\* The texts the generation collaborator answers a pipeline's call for a
\* schema with: a JSON object naming the schema, and prose.
ResponseTexts(schema_type) ==
    {<<"{", "\"schema\"", ":", SchemaTok[schema_type], "}">>,
     <<"Sorry", ",", "no", "analysis">>}

\* What one call of _generate_content meets: whether GenerativeModel(...)
\* constructs, and what generate_content does: it answers text, raises
\* ResourceExhausted ("quota") or raises another error ("error").
GenEnvs(schema_type) ==
    [construct : BOOLEAN, gen : {"quota", "error"}, text : {<<>>}]
    \cup [construct : BOOLEAN, gen : {"text"},
          text : ResponseTexts(schema_type)]

\* An initialize_model that reports success when GenerativeModel(...) raised.
InitializeModel_IgnoresConstructionError(held, schema_type, construct) ==
    IF schema_type \notin Schemas
    THEN [success |-> FALSE, error |-> PyStr("Invalid schema type"),
          model |-> held]
    ELSE [success |-> TRUE, error |-> PyNone, model |-> schema_type]

\* VertexService.initialize_model.
InitializeModel(held, schema_type, construct) ==
    IF schema_type \notin Schemas
    THEN [success |-> FALSE, error |-> PyStr("Invalid schema type"),
          model |-> held]
    ELSE IF ~construct
    THEN [success |-> FALSE, error |-> PyStr("Error initializing model"),
          model |-> held]
    ELSE [success |-> TRUE, error |-> PyNone, model |-> schema_type]

\* The payload of a response whose text json.loads rejects.
RawAnalysis(text) ==
    [t |-> "dict", raw_analysis |-> PyStr(text), structured |-> FALSE]

\* What _generate_content makes of the response text.
ParseResponse(text) ==
    LET parsed == JsonLoads(text) IN
    IF parsed.ok THEN parsed.val ELSE RawAnalysis(text)

Failure(message) ==
    [success |-> FALSE, result |-> PyNone, error |-> PyStr(message)]

\* A _generate_content that sends the schema its client was built with as
\* the response schema of the call.
GenerateContent_SendsClientSchema(held, prompt, schema_type, env) ==
    LET init == IF held = NoModel
                THEN InitializeModel(held, schema_type, env.construct)
                ELSE [success |-> TRUE, error |-> PyNone, model |-> held]
        call == [prompt |-> prompt, client |-> init.model,
                 response_schema |-> init.model, gen |-> env.gen,
                 text |-> env.text]
    IN  IF ~init.success
        THEN [ret |-> [success |-> FALSE, result |-> PyNone,
                       error |-> init.error],
              model |-> init.model, sent |-> <<>>]
        ELSE IF schema_type \notin Schemas
        THEN [ret |-> Failure("Error generating content: KeyError"),
              model |-> init.model, sent |-> <<>>]
        ELSE IF env.gen \in {"quota", "error"}
        THEN [ret |-> Failure("Error generating content: error"),
              model |-> init.model, sent |-> <<call>>]
        ELSE [ret |-> [success |-> TRUE, result |-> ParseResponse(env.text),
                       error |-> PyNone],
              model |-> init.model, sent |-> <<call>>]

\* VertexService._generate_content(prompt, schema_type) with the held client
\* held, in the environment env.  ret is the returned triple, model the held
\* client afterwards, sent the generation calls made (none or one), each
\* with the schema of the client it went through and the response_schema of
\* the call.
GenerateContent(held, prompt, schema_type, env) ==
    LET init == IF held = NoModel
                THEN InitializeModel(held, schema_type, env.construct)
                ELSE [success |-> TRUE, error |-> PyNone, model |-> held]
        call == [prompt |-> prompt, client |-> init.model,
                 response_schema |-> schema_type, gen |-> env.gen,
                 text |-> env.text]
    IN  IF ~init.success
        THEN [ret |-> [success |-> FALSE, result |-> PyNone,
                       error |-> init.error],
              model |-> init.model, sent |-> <<>>]
        ELSE IF schema_type \notin Schemas
        THEN [ret |-> Failure("Error generating content: KeyError"),
              model |-> init.model, sent |-> <<>>]
        ELSE IF env.gen = "quota"
        THEN [ret |-> Failure("Error generating content: ResourceExhausted"),
              model |-> init.model, sent |-> <<call>>]
        ELSE IF env.gen = "error"
        THEN [ret |-> Failure("Error generating content: error"),
              model |-> init.model, sent |-> <<call>>]
        ELSE [ret |-> [success |-> TRUE, result |-> ParseResponse(env.text),
                       error |-> PyNone],
              model |-> init.model, sent |-> <<call>>]

\* VertexService.analyze_video: the prompt is custom_prompt or video_url,
\* the custom prompt unless it is None or empty.
AnalyzeVideo(held, video_url, custom_prompt, env) ==
    LET prompt == IF custom_prompt = PyNone \/ custom_prompt = PyStr(<<>>)
                  THEN video_url ELSE custom_prompt
    IN  GenerateContent(held, prompt, "video_analysis", env)

\* generate_user_story sending a prompt that does not hold its input.
GenerateUserStory_IgnoresInput(held, video_analysis, env) ==
    GenerateContent(held, PyNone, "user_story", env)

\* VertexService.generate_user_story: the prompt is str(video_analysis).
GenerateUserStory(held, video_analysis, env) ==
    GenerateContent(held, [t |-> "str_of", v |-> video_analysis],
                    "user_story", env)

\* A generate_task_backlog that refuses a user story that is raw text.
GenerateTaskBacklog_RejectsRawText(held, user_story, template, env) ==
    IF "structured" \in DOMAIN user_story
    THEN [ret |-> Failure("Unstructured user story"),
          model |-> held, sent |-> <<>>]
    ELSE GenerateContent(held,
                         [t |-> "task_backlog_prompt", v |-> user_story],
                         "task_backlog", env)

\* VertexService.generate_task_backlog: the prompt is the template of
\* prompts/task_backlog.md with json.dumps(user_story) put in; template
\* tells whether loading and formatting the template succeed.
GenerateTaskBacklog(held, user_story, template, env) ==
    IF ~template
    THEN [ret |-> Failure("Error generating task backlog"),
          model |-> held, sent |-> <<>>]
    ELSE GenerateContent(held,
                         [t |-> "task_backlog_prompt", v |-> user_story],
                         "task_backlog", env)

\* VertexService.get_model_status, which render_sidebar calls at the start
\* of every script run: the held client afterwards.
GetModelStatus(held, construct) ==
    IF held = NoModel
    THEN InitializeModel(held, "video_analysis", construct).model
    ELSE held

(***************************************************************************)
(* The pipeline (app.py).                                                  *)
(*                                                                         *)
(*   now                the clock: the time of the next storage upload or  *)
(*                      document write                                     *)
(*   blobs              the blobs of the bucket below "videos/"            *)
(*   store              the documents of the collection, by key            *)
(*   model              VertexService.model, the held generation client    *)
(*   pc                 where each session's script is                     *)
(*   ex                 the local variables of each session's execution    *)
(*   processing_videos  st.session_state.processing_videos of each session *)
(*   runs               pipeline executions started so far                 *)
(*   fb                 a call of execute_with_regional_fallback           *)
(*   gc                 the last direct call of the stage runner           *)
(***************************************************************************)
VARIABLES now, blobs, store, model, pc, ex, processing_videos, runs, fb,
          gc

\* The variables of the pipeline, and all variables.
pipeline == <<now, blobs, store, model, pc, ex, processing_videos, runs>>

vars == <<pipeline, fb, gc>>

(***************************************************************************)
(* The regional fallback executor (utils/retry_handler.py).                *)
(*                                                                         *)
(* fb is one call of execute_with_regional_fallback(func): the attempt     *)
(* number of the retry decorator, the index of the region the loop is at,  *)
(* the last_exception of the running attempt, the location Vertex AI is    *)
(* bound to, the log of the work invocations (the region of the loop, the  *)
(* location bound, the attempt and what the work did), the waits slept     *)
(* between attempts and the result of the call.                            *)
(***************************************************************************)
\* stop_after_attempt(3).
StopAfterAttempt == 3

\* wait_exponential(multiplier=1, min=2, max=10).
WaitMultiplier == 1

WaitMin == 2

WaitMax == 10

Max2(a, b) == IF a >= b THEN a ELSE b

Min2(a, b) == IF a <= b THEN a ELSE b

\* A wait_exponential without its minimum.
WaitExponential_NoMin(attempt_number) ==
    Min2(WaitMultiplier * 2 ^ (attempt_number - 1), WaitMax)

\* The wait of wait_exponential after the attempt of a number:
\* multiplier * 2 ** (attempt_number - 1), kept between min and max.
WaitExponential(attempt_number) ==
    Max2(Max2(0, WaitMin),
         Min2(WaitMultiplier * 2 ^ (attempt_number - 1), WaitMax))

\* Whether the retry decorator retries after an exception: the strategy of
\* get_retry_strategy names no retry condition, and the default one retries
\* on every exception.
RetryOn(exception) == TRUE

\* What the work unit does in one invocation: it returns, raises
\* ResourceExhausted ("quota") or raises another error ("other").
WorkOutcomes == {"ok", "quota", "other"}

WorkValue(region, attempt_number) ==
    [t |-> "result", region |-> region, attempt |-> attempt_number]

WorkError(outcome, region, attempt_number) ==
    [type |-> IF outcome = "quota" THEN "ResourceExhausted" ELSE "Exception",
     region |-> region, attempt |-> attempt_number]

\* RetryError(f"All regions exhausted. Last error: {str(last_exception)}").
AllRegionsExhausted(last_exception) ==
    [type |-> "RetryError", last_attempt |-> last_exception]

NoCall ==
    [pc |-> "idle", attempt_number |-> 0, region |-> 0,
     last_exception |-> PyNone, location |-> "", log |-> <<>>,
     waits |-> <<>>, result |-> [kind |-> "none"]]

\* A retry decorator that stops one attempt late.
AfterAttemptRaised_StopsLate(f, exception) ==
    IF f.attempt_number > StopAfterAttempt
    THEN [f EXCEPT !.pc = "done",
                   !.result = [kind |-> "raise",
                               error |-> [type |-> "RetryError",
                                          last_attempt |-> exception]]]
    ELSE [f EXCEPT !.attempt_number = @ + 1, !.region = 1,
                   !.last_exception = PyNone, !.waits = Append(@, WaitMin)]

\* The retry decorator after an attempt raised: it gives up after
\* StopAfterAttempt attempts with its own RetryError around the attempt's
\* exception, propagates an exception it does not retry on, and otherwise
\* waits and calls the function again.
AfterAttemptRaised(f, exception) ==
    IF ~RetryOn(exception)
    THEN [f EXCEPT !.pc = "done",
                   !.result = [kind |-> "raise", error |-> exception]]
    ELSE IF f.attempt_number >= StopAfterAttempt
    THEN [f EXCEPT !.pc = "done",
                   !.result = [kind |-> "raise",
                               error |-> [type |-> "RetryError",
                                          last_attempt |-> exception]]]
    ELSE [f EXCEPT !.attempt_number = @ + 1, !.region = 1,
                   !.last_exception = PyNone,
                   !.waits = Append(@, WaitExponential(f.attempt_number))]

\* An init_vertex_ai that binds nothing.
InitVertexAi_BindsNothing(f, region) == f

\* RetryHandler.init_vertex_ai(region): vertexai.init binds the location.
InitVertexAi(f, region) == [f EXCEPT !.location = region]

\* One pass of the loop over Settings.REGIONS in the call f, the work doing
\* outcome: init_vertex_ai(region), then func.
TryRegion(f, outcome) ==
    LET region == REGIONS[f.region]
        bound == InitVertexAi(f, region)
        g == [bound EXCEPT
                !.log = Append(@, [region |-> region,
                                   location |-> bound.location,
                                   attempt |-> f.attempt_number,
                                   outcome |-> outcome])]
        exception == WorkError(outcome, region, f.attempt_number)
    IN  IF outcome = "ok"
        THEN [g EXCEPT !.pc = "done",
                       !.result = [kind |-> "return",
                                   value |-> WorkValue(region,
                                                       f.attempt_number)]]
        ELSE IF outcome = "quota"
        THEN IF f.region < Len(REGIONS)
             THEN [g EXCEPT !.region = @ + 1, !.last_exception = exception]
             ELSE AfterAttemptRaised([g EXCEPT !.last_exception = exception],
                                     AllRegionsExhausted(exception))
        ELSE AfterAttemptRaised(g, exception)

\* execute_with_regional_fallback(func) is called.
FallbackCall ==
    /\ fb.pc \in {"idle", "done"}
    /\ fb' = [NoCall EXCEPT !.pc = "running", !.attempt_number = 1,
                            !.region = 1, !.location = fb.location]
    /\ UNCHANGED <<pipeline, gc>>

\* The call binds the next region and invokes the work.
FallbackTryRegion(outcome) ==
    /\ fb.pc = "running"
    /\ fb' = TryRegion(fb, outcome)
    /\ UNCHANGED <<pipeline, gc>>

FallbackNext ==
    \/ FallbackCall
    \/ \E outcome \in WorkOutcomes : FallbackTryRegion(outcome)

(***************************************************************************)
(* The stage runner called on its own: gc holds the arguments of the last  *)
(* call of _generate_content, the client held when it was called, what it  *)
(* met and what it returned.                                               *)
(***************************************************************************)
NoStageCall ==
    [called |-> FALSE, prompt |-> PyNone, schema_type |-> "",
     held |-> NoModel,
     env |-> [construct |-> TRUE, gen |-> "text", text |-> <<>>],
     ret |-> Failure(""), sent |-> <<>>]

\* The schema names a caller passes: the three registered ones and one that
\* is not registered.
SchemaArgs == Schemas \cup {"summary"}

\* The texts the generation collaborator may answer with.
StageTexts ==
    {<<"{", "\"schema\"", ":", "\"user_story\"", "}">>,
     <<"{", "}">>,
     <<"[", "null", ",", "true", "]">>,
     <<"null">>,
     <<"{", "\"schema\"", ":", "[", "{", "}", "]", ",",
       "\"user_story\"", ":", "false", "}">>,
     <<>>,
     <<"Sorry", ",", "no", "analysis">>,
     <<"{", "\"schema\"", ":", "\"user_story\"">>,
     <<"{", "}", "}">>,
     <<"{", "\"schema\"", "\"user_story\"", "}">>,
     <<"[", "null", ",", "]">>,
     <<"Here", "{", "}">>}

StageEnvs ==
    [construct : BOOLEAN, gen : {"quota", "error"}, text : {<<>>}]
    \cup [construct : BOOLEAN, gen : {"text"}, text : StageTexts]

\* _generate_content(prompt, schema_type) is called.
StageRunnerCall(prompt, schema_type, env) ==
    /\ LET r == GenerateContent(model, prompt, schema_type, env) IN
       /\ model' = r.model
       /\ gc' = [called |-> TRUE, prompt |-> prompt,
                 schema_type |-> schema_type, held |-> model, env |-> env,
                 ret |-> r.ret, sent |-> r.sent]
    /\ UNCHANGED <<now, blobs, store, pc, ex, processing_videos, runs, fb>>

\* get_model_status() is called.
ModelStatusCall(construct) ==
    /\ model' = GetModelStatus(model, construct)
    /\ UNCHANGED <<now, blobs, store, pc, ex, processing_videos, runs, fb,
                   gc>>

StageNext ==
    \/ \E schema_type \in SchemaArgs, env \in StageEnvs :
          StageRunnerCall(PyStr(<<"prompt">>), schema_type, env)
    \/ \E construct \in BOOLEAN : ModelStatusCall(construct)

(***************************************************************************)
(* The pipeline's operations.                                              *)
(***************************************************************************)
\* The stage names upload_section and _rerun_analysis report failures under.
StageNames ==
    <<"Video analysis", "User story generation", "Task backlog generation">>

\* The default prompt of prompts/video_analysis_prompt.md and the texts a
\* user leaves in the prompt text area.
DefaultPrompt == <<"default", "prompt">>

PromptTexts == {DefaultPrompt, <<"my", "prompt">>}

\* The local variables of an execution.  calls holds one record per stage
\* invoked, in order; writes the statuses the execution persisted, in
\* order; status0 the persisted status of its document when it started;
\* saved and handled whether the write of save_analysis and the write of
\* _handle_analysis_error went through ("yes") or raised ("no").  view is
\* the execution's document as its own writes alone make it, starting from
\* the document it found; alone is view after its terminal write and
\* terminal_at the time of that write (0: none yet).  storage_success and
\* firestore_success are what the two deletes of a confirmed delete
\* returned ("none": no delete).
NoExecution ==
    [path |-> "none", video_name |-> <<>>, url |-> PyNone,
     custom_prompt |-> <<>>, prompt_to_use |-> PyNone, calls |-> <<>>,
     stage |-> "", error |-> PyNone, writes |-> <<>>, status0 |-> "none",
     saved |-> "none", handled |-> "none", view |-> <<>>, alone |-> Absent,
     terminal_at |-> 0, storage_success |-> "none",
     firestore_success |-> "none"]

\* The store cut down to the document of one key.
ViewOf(docs, key) == [k \in {key} \cap DOMAIN docs |-> docs[k]]

\* The persisted status of the document of a key: "none" when there is no
\* document.
StatusOf(docs, key) ==
    IF key \notin DOMAIN docs THEN "none"
    ELSE IF docs[key].status = Absent THEN "absent"
    ELSE docs[key].status.s

Init ==
    /\ now = 1
    /\ blobs = {}
    /\ store = <<>>
    /\ model = NoModel
    /\ pc = [s \in Sessions |-> "idle"]
    /\ ex = [s \in Sessions |-> NoExecution]
    /\ processing_videos = [s \in Sessions |-> {}]
    /\ runs = 0
    /\ fb = NoCall
    /\ gc = NoStageCall

\* An initial document whose status depends on the custom prompt.
InitialDoc_StatusByPrompt(file_name, url, custom, n) ==
    [video_name |-> PyStr(file_name),
     video_url |-> url,
     status |-> PyStr(IF custom THEN "queued" ELSE "processing"),
     timestamp |-> ServerTimestamp(n),
     custom_prompt |-> [t |-> "bool", b |-> custom]]

\* The document upload_section creates before the stages run.
InitialDoc(file_name, url, custom, n) ==
    [video_name |-> PyStr(file_name),
     video_url |-> url,
     status |-> PyStr("processing"),
     timestamp |-> ServerTimestamp(n),
     custom_prompt |-> [t |-> "bool", b |-> custom]]

\* The document _handle_analysis_error merges into the store.
FailedDoc(video_name, video_url, stage, error, n) ==
    [video_name |-> PyStr(video_name),
     video_url |-> video_url,
     status |-> PyStr("failed"),
     error |-> [t |-> "dict", stage |-> stage, message |-> error,
                timestamp |-> ServerTimestamp(n)],
     timestamp |-> ServerTimestamp(n)]

\* The analysis_result upload_section passes to save_analysis.
UploadAnalysisResult(video_analysis, user_story, task_backlog, n) ==
    [status |-> PyStr("completed"),
     timestamp |-> ServerTimestamp(n),
     analyses_results |->
        [t |-> "dict", video_analysis |-> video_analysis,
         user_story |-> user_story, task_backlog |-> task_backlog]]

\* The analysis_result _rerun_analysis passes to save_analysis.
RerunAnalysisResult(video_analysis, user_story, task_backlog) ==
    [video_analysis |-> video_analysis, user_story |-> user_story,
     task_backlog |-> task_backlog]

\* A script run in which "Process Video" is pressed: render_sidebar, then
\* upload_section up to the upload to storage.  A failed upload ends the
\* execution.
UploadStart(s, file_name, custom_prompt, valid, raises, construct) ==
    /\ pc[s] = "idle"
    /\ runs < MaxRuns
    /\ model' = GetModelStatus(model, construct)
    /\ LET up == UploadVideo(blobs, file_name, now, valid, raises)
           prompt_to_use == IF custom_prompt # DefaultPrompt
                            THEN PyStr(custom_prompt) ELSE PyNone
       IN  /\ blobs' = up.blobs
           /\ now' = IF up.success THEN now + 1 ELSE now
           /\ ex' = [ex EXCEPT ![s] =
                        [NoExecution EXCEPT
                            !.path = "upload", !.video_name = file_name,
                            !.url = up.url,
                            !.custom_prompt = custom_prompt,
                            !.prompt_to_use = prompt_to_use,
                            !.status0 = StatusOf(store, file_name),
                            !.view = ViewOf(store, file_name)]]
           /\ pc' = [pc EXCEPT ![s] =
                        IF up.success /\ up.url # PyNone
                        THEN "init_write" ELSE "done"]
    /\ runs' = runs + 1
    /\ UNCHANGED <<store, processing_videos, fb, gc>>

\* upload_section: the initial document write.  When it raises, the except
\* clause calls _handle_analysis_error("Processing", ...).
InitialWrite(s, raises) ==
    /\ pc[s] = "init_write"
    /\ IF raises
       THEN /\ ex' = [ex EXCEPT ![s].stage = "Processing",
                                ![s].error = PyStr("write failed")]
            /\ pc' = [pc EXCEPT ![s] = "handler"]
            /\ UNCHANGED <<store, now, processing_videos>>
       ELSE /\ store' = DocSet(store, ex[s].video_name,
                               InitialDoc(ex[s].video_name, ex[s].url,
                                          ex[s].custom_prompt # DefaultPrompt,
                                          now))
            /\ now' = now + 1
            /\ processing_videos' =
                  [processing_videos EXCEPT ![s] = @ \cup {ex[s].video_name}]
            /\ ex' = [ex EXCEPT
                        ![s].writes = Append(@, "processing"),
                        ![s].view = DocSet(@, ex[s].video_name,
                                           InitialDoc(ex[s].video_name,
                                                      ex[s].url,
                                                      ex[s].custom_prompt
                                                         # DefaultPrompt,
                                                      now))]
            /\ pc' = [pc EXCEPT ![s] = "stage1"]
    /\ UNCHANGED <<blobs, model, runs, fb, gc>>

\* A rerun that marks the video as processing before it looks its URL up.
RerunStart_MarksBeforeLookup(s, video_name, raises, construct) ==
    /\ pc[s] = "idle"
    /\ runs < MaxRuns
    /\ model' = GetModelStatus(model, construct)
    /\ LET got == GetVideoUrl(blobs, video_name, raises) IN
       /\ ex' = [ex EXCEPT ![s] =
                    [NoExecution EXCEPT
                        !.path = "rerun", !.video_name = video_name,
                        !.url = got.url, !.custom_prompt = DefaultPrompt,
                        !.status0 = StatusOf(store, video_name),
                        !.view = ViewOf(store, video_name)]]
       /\ pc' = [pc EXCEPT ![s] = IF got.success THEN "stage1" ELSE "done"]
    /\ processing_videos' =
          [processing_videos EXCEPT ![s] = @ \cup {video_name}]
    /\ runs' = runs + 1
    /\ UNCHANGED <<now, blobs, store, fb, gc>>

\* A script run in which "Rerun Analysis" is pressed for the video selected
\* in video_list_section: render_sidebar, then _rerun_analysis up to the
\* lookup of the video's URL.  A failed lookup ends the execution; otherwise
\* the video is marked as processing in the session.
RerunStart(s, video_name, raises, construct) ==
    /\ pc[s] = "idle"
    /\ runs < MaxRuns
    /\ model' = GetModelStatus(model, construct)
    /\ LET got == GetVideoUrl(blobs, video_name, raises) IN
       /\ ex' = [ex EXCEPT ![s] =
                    [NoExecution EXCEPT
                        !.path = "rerun", !.video_name = video_name,
                        !.url = got.url, !.custom_prompt = DefaultPrompt,
                        !.status0 = StatusOf(store, video_name),
                        !.view = ViewOf(store, video_name)]]
       /\ IF got.success
          THEN /\ processing_videos' =
                     [processing_videos EXCEPT ![s] = @ \cup {video_name}]
               /\ pc' = [pc EXCEPT ![s] = "stage1"]
          ELSE /\ pc' = [pc EXCEPT ![s] = "done"]
               /\ UNCHANGED processing_videos
    /\ runs' = runs + 1
    /\ UNCHANGED <<now, blobs, store, fb, gc>>

\* What follows a stage call that returned r: the next stage, or
\* _handle_analysis_error with the stage's name and the returned error.
AfterStage(s, i, input, r, next_pc) ==
    /\ model' = r.model
    /\ ex' = [ex EXCEPT
                ![s].calls = Append(@, [stage |-> StageNames[i],
                                        input |-> input, ret |-> r.ret,
                                        sent |-> r.sent]),
                ![s].stage = IF r.ret.success THEN @ ELSE StageNames[i],
                ![s].error = IF r.ret.success THEN @ ELSE r.ret.error]
    /\ pc' = [pc EXCEPT ![s] = IF r.ret.success THEN next_pc ELSE "handler"]
    /\ UNCHANGED <<now, blobs, store, processing_videos, runs, fb, gc>>

\* The video analysis stage: analyze_video(url, prompt_to_use) in
\* upload_section, analyze_video(url) in _rerun_analysis.
Stage1(s, env) ==
    /\ pc[s] = "stage1"
    /\ AfterStage(s, 1, [url |-> ex[s].url, prompt |-> ex[s].prompt_to_use],
                  AnalyzeVideo(model, ex[s].url, ex[s].prompt_to_use, env),
                  "stage2")

\* The user story stage: generate_user_story(video_analysis).
Stage2(s, env) ==
    /\ pc[s] = "stage2"
    /\ LET video_analysis == ex[s].calls[1].ret.result IN
       AfterStage(s, 2, video_analysis,
                  GenerateUserStory(model, video_analysis, env), "stage3")

\* The task backlog stage: generate_task_backlog(user_story).
Stage3(s, template, env) ==
    /\ pc[s] = "stage3"
    /\ LET user_story == ex[s].calls[2].ret.result IN
       AfterStage(s, 3, user_story,
                  GenerateTaskBacklog(model, user_story, template, env),
                  "save")

\* The analysis_result the execution of a session passes to save_analysis
\* after its three stages.
AnalysisResult(e, n) ==
    LET video_analysis == e.calls[1].ret.result
        user_story == e.calls[2].ret.result
        task_backlog == e.calls[3].ret.result
    IN  IF e.path = "upload"
        THEN UploadAnalysisResult(video_analysis, user_story, task_backlog, n)
        ELSE RerunAnalysisResult(video_analysis, user_story, task_backlog)

\* The end of upload_section and of _rerun_analysis: save_analysis, and on
\* its success the video leaves processing_videos.
Save(s, raises) ==
    /\ pc[s] = "save"
    /\ LET saved == SaveAnalysis(store, ex[s].video_name,
                                 AnalysisResult(ex[s], now), ex[s].url, now,
                                 raises)
       IN  /\ store' = saved.docs
           /\ IF saved.success
              THEN /\ processing_videos' =
                         [processing_videos EXCEPT
                             ![s] = @ \ {ex[s].video_name}]
                   /\ now' = now + 1
                   /\ ex' = [ex EXCEPT
                               ![s].writes = Append(@, "completed"),
                               ![s].saved = "yes",
                               ![s].alone =
                                  SaveAnalysis(ex[s].view, ex[s].video_name,
                                               AnalysisResult(ex[s], now),
                                               ex[s].url, now, FALSE)
                                     .docs[ex[s].video_name],
                               ![s].terminal_at = now]
              ELSE /\ ex' = [ex EXCEPT ![s].saved = "no"]
                   /\ UNCHANGED <<processing_videos, now>>
    /\ pc' = [pc EXCEPT ![s] = "done"]
    /\ UNCHANGED <<blobs, model, runs, fb, gc>>

\* _handle_analysis_error(stage, error, video_name): the URL lookup, the
\* merge write of the failed status (an exception of it is logged and
\* dropped), and the video leaves processing_videos.  The "Retry Analysis"
\* button it draws is drawn for the first time in this script run and so
\* reads as not pressed.
HandleAnalysisError(s, url_raises, write_raises) ==
    /\ pc[s] = "handler"
    /\ LET got == GetVideoUrl(blobs, ex[s].video_name, url_raises)
           video_url == IF got.success THEN got.url ELSE PyNone
       IN  IF write_raises
           THEN /\ ex' = [ex EXCEPT ![s].handled = "no"]
                /\ UNCHANGED <<store, now>>
           ELSE /\ store' = DocSetMerge(store, ex[s].video_name,
                                        FailedDoc(ex[s].video_name, video_url,
                                                  ex[s].stage, ex[s].error,
                                                  now))
                /\ now' = now + 1
                /\ ex' = [ex EXCEPT
                            ![s].writes = Append(@, "failed"),
                            ![s].handled = "yes",
                            ![s].alone =
                               DocSetMerge(ex[s].view, ex[s].video_name,
                                           FailedDoc(ex[s].video_name,
                                                     video_url, ex[s].stage,
                                                     ex[s].error, now))
                                  [ex[s].video_name],
                            ![s].terminal_at = now]
    /\ processing_videos' =
          [processing_videos EXCEPT ![s] = @ \ {ex[s].video_name}]
    /\ pc' = [pc EXCEPT ![s] = "done"]
    /\ UNCHANGED <<blobs, model, runs, fb, gc>>

\* A script run in which "Yes, Delete" is pressed for the video selected in
\* video_list_section, the deletion having been asked for in an earlier
\* script run: render_sidebar, then delete_video and delete_analysis.
Delete(s, video_name, storage_raises, firestore_raises, construct) ==
    /\ pc[s] = "idle"
    /\ model' = GetModelStatus(model, construct)
    /\ LET storage == DeleteVideo(blobs, video_name, storage_raises)
           firestore == DeleteAnalysis(store, video_name, firestore_raises)
       IN  /\ blobs' = storage.blobs
           /\ store' = firestore.docs
           /\ ex' = [ex EXCEPT ![s] =
                        [NoExecution EXCEPT
                            !.path = "delete", !.video_name = video_name,
                            !.status0 = StatusOf(store, video_name),
                            !.storage_success =
                               IF storage.success THEN "yes" ELSE "no",
                            !.firestore_success =
                               IF firestore.success THEN "yes" ELSE "no"]]
    /\ pc' = [pc EXCEPT ![s] = "done"]
    /\ UNCHANGED <<now, processing_videos, runs, fb, gc>>

\* The script run is over; the session waits for the next interaction.
Return(s) ==
    /\ pc[s] = "done"
    /\ pc' = [pc EXCEPT ![s] = "idle"]
    /\ ex' = [ex EXCEPT ![s] = NoExecution]
    /\ UNCHANGED <<now, blobs, store, model, processing_videos, runs, fb, gc>>

\* No script run is under way.
AllIdle == \A s \in Sessions : pc[s] = "idle"

\* The videos video_list_section offers for selection: the names
\* list_videos returns.
ListedVideos == blobs

\* One pipeline execution at a time: script runs do not overlap.
Next ==
    \E s \in Sessions :
        \/ /\ AllIdle
           /\ \E file_name \in FileNames, custom_prompt \in PromptTexts,
                 valid \in BOOLEAN, raises \in BOOLEAN, construct \in BOOLEAN :
                 UploadStart(s, file_name, custom_prompt, valid, raises,
                             construct)
        \/ /\ AllIdle
           /\ \E video_name \in ListedVideos, raises \in BOOLEAN,
                 construct \in BOOLEAN :
                 RerunStart(s, video_name, raises, construct)
        \/ \E raises \in BOOLEAN : InitialWrite(s, raises)
        \/ \E env \in GenEnvs("video_analysis") : Stage1(s, env)
        \/ \E env \in GenEnvs("user_story") : Stage2(s, env)
        \/ \E template \in BOOLEAN, env \in GenEnvs("task_backlog") :
              Stage3(s, template, env)
        \/ \E raises \in BOOLEAN : Save(s, raises)
        \/ \E url_raises \in BOOLEAN, write_raises \in BOOLEAN :
              HandleAnalysisError(s, url_raises, write_raises)
        \/ Return(s)

\* The pipeline and the deletion of videos, one script run at a time.
DeleteNext ==
    \/ Next
    \/ \E s \in Sessions :
          /\ AllIdle
          /\ \E video_name \in ListedVideos, storage_raises \in BOOLEAN,
                firestore_raises \in BOOLEAN, construct \in BOOLEAN :
                Delete(s, video_name, storage_raises, firestore_raises,
                       construct)

\* What a generation call meets in the interleaved script runs: the client
\* constructs, and the call answers the JSON object of its schema or raises
\* an error.
ConcurrentEnvs(schema_type) ==
    {env \in GenEnvs(schema_type) :
        /\ env.construct
        /\ env.gen \in {"text", "error"}
        /\ env.gen = "text" => JsonLoads(env.text).ok}

\* Script runs of different sessions overlap: Streamlit runs each session's
\* script in its own thread, over the services all sessions share.  The
\* uploads are valid and the storage calls do not raise; the document
\* writes may.
ConcurrentNext ==
    \E s \in Sessions :
        \/ \E file_name \in FileNames :
              UploadStart(s, file_name, DefaultPrompt, TRUE, FALSE, TRUE)
        \/ \E video_name \in ListedVideos :
              RerunStart(s, video_name, FALSE, TRUE)
        \/ \E raises \in BOOLEAN : InitialWrite(s, raises)
        \/ \E env \in ConcurrentEnvs("video_analysis") : Stage1(s, env)
        \/ \E env \in ConcurrentEnvs("user_story") : Stage2(s, env)
        \/ \E env \in ConcurrentEnvs("task_backlog") : Stage3(s, TRUE, env)
        \/ \E raises \in BOOLEAN : Save(s, raises)
        \/ \E write_raises \in BOOLEAN :
              HandleAnalysisError(s, FALSE, write_raises)
        \/ Return(s)

(***************************************************************************)
(* The regional fallback executor's properties.                            *)
(***************************************************************************)
\* C4: when the work raises a quota error on the first k regions and
\* succeeds on region k+1 (k < 3), the call returns that result after
\* exactly k+1 invocations, one per region in list order, each made with
\* the location bound to its region, in the first attempt and without a
\* wait: no later region is tried and no further sweep is started.
C4_FallbackSuccess ==
    \A k \in 0..(Len(REGIONS) - 1) :
        (/\ fb.pc = "done"
         /\ Len(fb.log) >= k + 1
         /\ \A i \in 1..k : fb.log[i].outcome = "quota"
         /\ fb.log[k + 1].outcome = "ok")
        => /\ Len(fb.log) = k + 1
           /\ fb.result = [kind |-> "return",
                           value |-> WorkValue(REGIONS[k + 1], 1)]
           /\ \A i \in 1..(k + 1) :
                 /\ fb.log[i].region = REGIONS[i]
                 /\ fb.log[i].location = REGIONS[i]
                 /\ fb.log[i].attempt = 1
           /\ fb.waits = <<>>

\* C4's case: two regions exhausted, the third succeeds, the call returned.
C4_Witness ==
    /\ fb.pc = "done"
    /\ Len(fb.log) = 3
    /\ fb.log[1].outcome = "quota"
    /\ fb.log[2].outcome = "quota"
    /\ fb.log[3].outcome = "ok"
    /\ fb.result.kind = "return"

\* C5: when the work raises a quota error in every invocation, the call
\* ends raising RetryError around the exhaustion error that carries the
\* quota error of the last region in the third attempt, after exactly 3
\* sweeps of the 3 regions (9 invocations); it never returns a result.
C5_FallbackExhaustion ==
    (/\ fb.pc = "done"
     /\ \A i \in 1..Len(fb.log) : fb.log[i].outcome = "quota")
    => /\ Len(fb.log) = 9
       /\ \A i \in 1..Len(fb.log) :
             /\ fb.log[i].attempt = ((i - 1) \div 3) + 1
             /\ fb.log[i].region = REGIONS[((i - 1) % 3) + 1]
       /\ Len(fb.waits) = 2
       /\ fb.result =
             [kind |-> "raise",
              error |-> [type |-> "RetryError",
                         last_attempt |->
                            AllRegionsExhausted(
                               WorkError("quota", REGIONS[3], 3))]]

\* C5's case: nine quota errors and the call is over.
C5_Witness ==
    /\ fb.pc = "done"
    /\ Len(fb.log) = 9
    /\ \A i \in 1..9 : fb.log[i].outcome = "quota"
    /\ fb.result.kind = "raise"

\* C6: when the work raises a non-quota error on the first region, the call
\* fails at once with that error after exactly one work invocation.
C6_NonQuotaShortCircuit ==
    (/\ fb.pc = "done"
     /\ Len(fb.log) >= 1
     /\ fb.log[1].outcome = "other")
    => /\ Len(fb.log) = 1
       /\ fb.result = [kind |-> "raise",
                       error |-> WorkError("other", REGIONS[1], 1)]

(***************************************************************************)
(* The stage runner's properties.                                          *)
(***************************************************************************)
\* Texts that are not JSON: the empty text, prose, an object cut short, an
\* object followed by extra data, a member without its colon, an array
\* with a trailing comma, and an object after prose.
NonJsonTexts ==
    {<<>>,
     <<"Sorry", ",", "no", "analysis">>,
     <<"{", "\"schema\"", ":", "\"user_story\"">>,
     <<"{", "}", "}">>,
     <<"{", "\"schema\"", "\"user_story\"", "}">>,
     <<"[", "null", ",", "]">>,
     <<"Here", "{", "}">>}

Succeeded(e) ==
    /\ Len(e.calls) = 3
    /\ \A i \in 1..3 : e.calls[i].ret.success

\* An artifact that is missing or empty.
EmptyArtifacts == {Absent, PyNone, PyEmptyDict}

\* C1: when all three stages of an execution (upload or rerun) succeeded
\* and save_analysis persisted the Run, the document has status completed
\* and its video_analysis, user_story and task_backlog hold what the
\* stages returned; and no document with status completed has a missing or
\* empty artifact.
C1_CompletedRunHoldsArtifacts ==
    /\ \A s \in Sessions :
          (pc[s] = "done" /\ Succeeded(ex[s]) /\ ex[s].saved = "yes")
          => /\ ex[s].video_name \in DOMAIN store
             /\ store[ex[s].video_name].status = PyStr("completed")
             /\ store[ex[s].video_name].analyses_results =
                   [t |-> "dict",
                    video_analysis |-> ex[s].calls[1].ret.result,
                    user_story |-> ex[s].calls[2].ret.result,
                    task_backlog |-> ex[s].calls[3].ret.result]
    /\ \A k \in DOMAIN store :
          store[k].status = PyStr("completed")
          => /\ store[k].analyses_results # Absent
             /\ store[k].analyses_results.video_analysis \notin EmptyArtifacts
             /\ store[k].analyses_results.user_story \notin EmptyArtifacts
             /\ store[k].analyses_results.task_backlog \notin EmptyArtifacts

\* The rerun path alone keeps C1's first part: the document save_analysis
\* persisted holds what the three stages returned.
RerunPersistsArtifacts ==
    \A s \in Sessions :
        (/\ pc[s] = "done"
         /\ ex[s].path = "rerun"
         /\ Succeeded(ex[s])
         /\ ex[s].saved = "yes")
        => /\ store[ex[s].video_name].status = PyStr("completed")
           /\ store[ex[s].video_name].analyses_results =
                 [t |-> "dict",
                  video_analysis |-> ex[s].calls[1].ret.result,
                  user_story |-> ex[s].calls[2].ret.result,
                  task_backlog |-> ex[s].calls[3].ret.result]

\* The stages an execution invoked are the first stages, in order, and only
\* the last of them may have failed.
FailFast(e) ==
    /\ Len(e.calls) <= 3
    /\ \A i \in 1..Len(e.calls) :
          /\ e.calls[i].stage = StageNames[i]
          /\ (~e.calls[i].ret.success => i = Len(e.calls))

\* An execution whose last stage call returned success = false.
StageFailed(e) ==
    /\ e.calls # <<>>
    /\ ~e.calls[Len(e.calls)].ret.success

\* C2: when stage i of an execution returned success = false, the Run
\* persisted when the execution returns has status failed and error.stage
\* is the name of stage i, and the stages after i were not invoked.
C2_StageFailurePersisted ==
    \A s \in Sessions :
        /\ FailFast(ex[s])
        /\ (pc[s] = "done" /\ StageFailed(ex[s]))
           => /\ ex[s].video_name \in DOMAIN store
              /\ store[ex[s].video_name].status = PyStr("failed")
              /\ store[ex[s].video_name].error # Absent
              /\ store[ex[s].video_name].error.stage =
                    StageNames[Len(ex[s].calls)]

\* C2 holds of the executions whose failure write went through.
StageFailurePersistedWhenWritten ==
    \A s \in Sessions :
        /\ FailFast(ex[s])
        /\ (pc[s] = "done" /\ StageFailed(ex[s]) /\ ex[s].handled = "yes")
           => /\ ex[s].video_name \in DOMAIN store
              /\ store[ex[s].video_name].status = PyStr("failed")
              /\ store[ex[s].video_name].error # Absent
              /\ store[ex[s].video_name].error.stage =
                    StageNames[Len(ex[s].calls)]

\* The keys under which the pipeline addresses the Run of the stored video
\* b: the name list_videos gives it, and the name it was uploaded under.
RunKeys(b) == {b, AfterUnderscore(b)}

\* C3: the store holds at most one Run document for a stored video: the
\* writes of the upload path and of the rerun path address one key.
C3_OneRunDocumentPerVideo ==
    \A b \in blobs : Cardinality(RunKeys(b) \cap DOMAIN store) <= 1

\* C8: an invocation of _rerun_analysis on a Run whose persisted status is
\* failed, once it has the video's URL, sets the persisted status to
\* processing and then, when it ends, to completed or failed.
C8_RetryAfterFailure ==
    \A s \in Sessions :
        (/\ pc[s] = "done"
         /\ ex[s].path = "rerun"
         /\ ex[s].status0 = "failed"
         /\ ex[s].calls # <<>>)
        => /\ Len(ex[s].writes) = 2
           /\ ex[s].writes[1] = "processing"
           /\ ex[s].writes[2] \in {"completed", "failed"}
           /\ StatusOf(store, ex[s].video_name) \in {"completed", "failed"}

\* The changes of a persisted status the state machine allows.
AllowedTransitions ==
    {<<"none", "processing">>, <<"processing", "completed">>,
     <<"processing", "failed">>, <<"failed", "processing">>}

\* C9: every change of a Run document's persisted status is one of
\* (none) -> processing, processing -> completed, processing -> failed and
\* failed -> processing.
C9_StatusTransitions ==
    [][\A k \in DOMAIN store' :
          StatusOf(store, k) # StatusOf(store', k)
          => <<StatusOf(store, k), StatusOf(store', k)>>
                \in AllowedTransitions]_vars

\* C10: when an execution that persisted status processing returns, the
\* persisted status of its Run is completed or failed.
C10_NeverStuckAtProcessing ==
    \A s \in Sessions :
        (/\ pc[s] = "done"
         /\ ex[s].writes # <<>>
         /\ ex[s].writes[1] = "processing")
        => StatusOf(store, ex[s].video_name) \in {"completed", "failed"}

\* C11: within one execution the stages are invoked in the order video
\* analysis, user story generation, task backlog generation, each at most
\* once and with at most one generation call, each under its own schema;
\* stage 2 is invoked only after stage 1 succeeded and its input and prompt
\* hold exactly stage 1's result, and stage 3 only after stage 2 succeeded
\* with exactly stage 2's result.
C11_StagesInOrder ==
    \A s \in Sessions :
        LET calls == ex[s].calls
            schema == <<"video_analysis", "user_story", "task_backlog">>
        IN  /\ Len(calls) <= 3
            /\ \A i \in 1..Len(calls) :
                  /\ calls[i].stage = StageNames[i]
                  /\ Len(calls[i].sent) <= 1
                  /\ calls[i].sent # <<>>
                     => calls[i].sent[1].response_schema = schema[i]
                  /\ i > 1 => /\ calls[i - 1].ret.success
                              /\ calls[i].input = calls[i - 1].ret.result
            /\ (Len(calls) >= 2 /\ calls[2].sent # <<>>)
               => calls[2].sent[1].prompt =
                     [t |-> "str_of", v |-> calls[1].ret.result]
            /\ (Len(calls) >= 3 /\ calls[3].sent # <<>>)
               => calls[3].sent[1].prompt =
                     [t |-> "task_backlog_prompt",
                      v |-> calls[2].ret.result]
            /\ pc[s] = "stage1" => Len(calls) = 0
            /\ pc[s] = "stage2" => Len(calls) = 1
            /\ pc[s] = "stage3" => Len(calls) = 2

\* C11's case: an execution that invoked all three stages, each with a
\* generation call, and returned.
C11_Witness ==
    \E s \in Sessions :
        /\ pc[s] = "done"
        /\ Len(ex[s].calls) = 3
        /\ \A i \in 1..3 : /\ ex[s].calls[i].ret.success
                           /\ Len(ex[s].calls[i].sent) = 1

\* C12: a stage reports a quota error of its generation call as a failure
\* only after the call went through the fallback executor, that is after
\* one generation call per region of the region list.
C12_QuotaFailureAfterAllRegions ==
    \A s \in Sessions :
        \A i \in 1..Len(ex[s].calls) :
            LET c == ex[s].calls[i] IN
            (/\ ~c.ret.success
             /\ c.sent # <<>>
             /\ c.sent[Len(c.sent)].gen = "quota")
            => Len(c.sent) >= Len(REGIONS)

\* C13: the error record of every Run document names one of the three
\* stages, and the record an execution wrote names a stage the execution
\* had invoked.
C13_ErrorStageIsInvokedStage ==
    /\ \A k \in DOMAIN store :
          store[k].error # Absent
          => \E i \in 1..3 : store[k].error.stage = StageNames[i]
    /\ \A s \in Sessions :
          (pc[s] = "done" /\ ex[s].handled = "yes")
          => \E i \in 1..Len(ex[s].calls) :
                ex[s].calls[i].stage = store[ex[s].video_name].error.stage

\* C14: a Run document holds analyses results only when its status is
\* completed: no document with status failed or processing has the
\* analyses_results field.
C14_ResultsOnlyWhenCompleted ==
    \A k \in DOMAIN store :
        StatusOf(store, k) \in {"failed", "processing"}
        => store[k].analyses_results = Absent

C16_TimestampImmutable ==
    [][\A k \in DOMAIN store \cap DOMAIN store' :
          store'[k].timestamp = store[k].timestamp]_vars

\* C17: when the last write to a document is the terminal write of an
\* execution, the document equals, field for field, the document that
\* execution's writes alone make of the document it found.
C17_LastTerminalWriteWins ==
    \A s \in Sessions :
        (/\ ex[s].terminal_at # 0
         /\ store[ex[s].video_name].timestamp
               = ServerTimestamp(ex[s].terminal_at))
        => store[ex[s].video_name] = ex[s].alone

\* The writes an execution may have made: the run-start write, then one
\* terminal write.
AtomicWrites ==
    {<<>>, <<"processing">>, <<"completed">>, <<"failed">>,
     <<"processing", "completed">>, <<"processing", "failed">>}

\* C18: an execution writes nothing between its run-start write and its
\* terminal write; the results a document holds are all three artifacts,
\* never fewer; and the write that sets status completed holds the three
\* artifacts the stages returned.
C18_AtomicCommit ==
    /\ \A s \in Sessions : ex[s].writes \in AtomicWrites
    /\ \A k \in DOMAIN store :
          store[k].analyses_results # Absent
          => /\ StatusOf(store, k) = "completed"
             /\ Cardinality(
                   {a \in {"video_analysis", "user_story", "task_backlog"} :
                       store[k].analyses_results[a] \notin EmptyArtifacts})
                = 3
    /\ \A s \in Sessions :
          ex[s].saved = "yes"
          => ex[s].alone.analyses_results =
                [t |-> "dict",
                 video_analysis |-> ex[s].calls[1].ret.result,
                 user_story |-> ex[s].calls[2].ret.result,
                 task_backlog |-> ex[s].calls[3].ret.result]

\* The part of C18 about the order and number of writes: every change of
\* the store is the run-start write or the one terminal write of an
\* execution, and a document's results always have all three keys.
WritesAreAtomic ==
    /\ \A s \in Sessions : ex[s].writes \in AtomicWrites
    /\ \A k \in DOMAIN store :
          store[k].analyses_results # Absent
          => DOMAIN store[k].analyses_results
                = {"t", "video_analysis", "user_story", "task_backlog"}

\* C19: the merge write of _handle_analysis_error changes only the status
\* and error fields of an existing document.
C19_ErrorWriteKeepsOtherFields ==
    [][\A s \in Sessions :
          (/\ pc[s] = "handler"
           /\ ex'[s].handled = "yes"
           /\ ex[s].video_name \in DOMAIN store)
          => \A f \in Fields \ {"status", "error"} :
                store'[ex[s].video_name][f] = store[ex[s].video_name][f]]_vars

\* C20: after every successful call of _generate_content the generation
\* call went through a client built with the schema of the call, and that
\* client is the one held.
C20_ClientBoundToCallSchema ==
    (gc.called /\ gc.ret.success)
    => /\ Len(gc.sent) = 1
       /\ gc.sent[1].client = gc.schema_type

\* C21: the response schema sent with every generation call of
\* _generate_content is the schema registered under the schema name of the
\* call, whatever schema the client it goes through was built with.
C21_ResponseSchemaIsCallSchema ==
    gc.called
    => \A i \in 1..Len(gc.sent) :
          /\ gc.schema_type \in Schemas
          /\ gc.sent[i].response_schema = gc.schema_type

\* C21's case: a generation call for one schema went through a client built
\* with another.
C21_Witness ==
    /\ gc.called
    /\ Len(gc.sent) = 1
    /\ gc.sent[1].client # gc.schema_type
    /\ gc.sent[1].response_schema = "task_backlog"

\* C22: a call of _generate_content returns a triple; a failure is (false,
\* None, message); an unknown schema name, with or without a client held,
\* and a construction error of the client fail without a generation call; a
\* generation call that raises, quota included, fails after exactly that one
\* call; no call makes more than one generation call.
C22_FailuresAreValues ==
    gc.called
    => /\ DOMAIN gc.ret = {"success", "result", "error"}
       /\ gc.ret.success \in BOOLEAN
       /\ Len(gc.sent) <= 1
       /\ ~gc.ret.success
          => /\ gc.ret.result = PyNone
             /\ gc.ret.error # PyNone
             /\ gc.ret.error.t = "str"
       /\ gc.schema_type \notin Schemas
          => ~gc.ret.success /\ gc.sent = <<>>
       /\ (gc.held = NoModel /\ ~gc.env.construct)
          => ~gc.ret.success /\ gc.sent = <<>>
       /\ (gc.sent # <<>> /\ gc.env.gen \in {"quota", "error"})
          => ~gc.ret.success /\ Len(gc.sent) = 1

\* C22's case: with a client held, a call with an unknown schema name has
\* failed.
C22_Witness ==
    /\ gc.called
    /\ gc.held # NoModel
    /\ gc.schema_type \notin Schemas
    /\ ~gc.ret.success

\* C23: a call of execute_with_regional_fallback makes at most 3 attempts,
\* each at most one sweep of the region list (at most 3 x 3 invocations of
\* the work), waits at least 2 and at most 10 between two attempts, and
\* ends.
C23_FallbackTerminates ==
    /\ [](/\ fb.attempt_number <= 3
          /\ Len(fb.log) <= 3 * Len(REGIONS)
          /\ \A a \in 1..3 :
                Cardinality({i \in 1..Len(fb.log) : fb.log[i].attempt = a})
                   <= Len(REGIONS)
          /\ Len(fb.waits) = Max2(fb.attempt_number, 1) - 1
          /\ \A i \in 1..Len(fb.waits) :
                fb.waits[i] >= 2 /\ fb.waits[i] <= 10)
    /\ (fb.pc = "running" ~> fb.pc = "done")

\* C23's case: a call that returned in its third attempt, after two waits.
C23_Witness ==
    /\ fb.pc = "done"
    /\ fb.attempt_number = 3
    /\ Len(fb.waits) = 2
    /\ fb.result.kind = "return"

\* C30: a confirmed delete whose delete_video failed (an error, or the
\* video not found) deletes no Run document: the store is as it was.
C30_DeleteAllOrNothing ==
    [][\A s \in Sessions :
          (/\ pc[s] = "idle"
           /\ ex'[s].path = "delete"
           /\ ex'[s].storage_success = "no")
          => store' = store]_vars

\* The pipeline executions: uploads and reruns.
PipelinePaths == {"upload", "rerun"}

\* C24: a rerun starts at stage 1 with the URL get_video_url gave for the
\* video and no prompt, and the inputs of its stage calls do not depend on
\* the stored Run document: two reruns of one video whose earlier stages
\* returned the same make the same stage call, whatever document each
\* found in the store.
C24_RerunFromScratch ==
    /\ \A s \in Sessions :
          (ex[s].path = "rerun" /\ ex[s].calls # <<>>)
          => /\ ex[s].calls[1].stage = StageNames[1]
             /\ ex[s].calls[1].input =
                   [url |-> PyStr(<<"https://storage.googleapis.com/",
                                    "videos/">> \o ex[s].video_name),
                    prompt |-> PyNone]
    /\ \A s, t \in Sessions :
          (/\ ex[s].path = "rerun"
           /\ ex[t].path = "rerun"
           /\ ex[s].video_name = ex[t].video_name)
          => \A i \in 1..Min2(Len(ex[s].calls), Len(ex[t].calls)) :
                (\A j \in 1..(i - 1) :
                    ex[s].calls[j].ret = ex[t].calls[j].ret)
                => /\ ex[s].calls[i].stage = ex[t].calls[i].stage
                   /\ ex[s].calls[i].input = ex[t].calls[i].input
                   /\ (ex[s].calls[i].sent # <<>>
                       /\ ex[t].calls[i].sent # <<>>)
                      => ex[s].calls[i].sent[1].prompt
                            = ex[t].calls[i].sent[1].prompt

\* C24's case: two reruns of one video, one started with no Run document
\* and one with a document holding results, have both called stage 2.
C24_Witness ==
    \E s, t \in Sessions :
        /\ ex[s].path = "rerun"
        /\ ex[t].path = "rerun"
        /\ ex[s].video_name = ex[t].video_name
        /\ ex[s].view = <<>>
        /\ ex[t].view # <<>>
        /\ ex[t].view[ex[t].video_name].analyses_results # Absent
        /\ Len(ex[s].calls) >= 2
        /\ Len(ex[t].calls) >= 2

\* The statuses an upload persists, from what its collaborators did: the
\* upload, the initial write, the stages, the final write.
UploadWrites(e) ==
    IF e.url = PyNone THEN <<>>
    ELSE IF e.stage = "Processing"
    THEN IF e.handled = "yes" THEN <<"failed">> ELSE <<>>
    ELSE <<"processing">> \o
         (IF e.saved = "yes" THEN <<"completed">>
          ELSE IF e.handled = "yes" THEN <<"failed">>
          ELSE <<>>)

\* C25: the stage invocations and the persisted statuses of an upload are
\* those its collaborators' outcomes determine, with a custom prompt as
\* with the default one: the stages in order up to the first failure, and
\* processing, then completed or failed.
C25_CustomPromptSameStateMachine ==
    \A s \in Sessions :
        ex[s].path = "upload"
        => /\ FailFast(ex[s])
           /\ pc[s] \in {"stage1", "stage2", "stage3", "save", "handler"}
              => (ex[s].stage # "Processing"
                  => /\ ex[s].writes = <<"processing">>
                     /\ StatusOf(store, ex[s].video_name) = "processing")
           /\ pc[s] = "done"
              => /\ ex[s].writes = UploadWrites(ex[s])
                 /\ ex[s].writes # <<>>
                    => StatusOf(store, ex[s].video_name)
                          = ex[s].writes[Len(ex[s].writes)]
                 /\ (ex[s].saved = "yes") => Succeeded(ex[s])
                 /\ (ex[s].handled # "none")
                    => (StageFailed(ex[s]) \/ ex[s].stage = "Processing")

\* C25's case: an upload with a custom prompt has finished completed, its
\* stage 1 having been sent that prompt.
C25_Witness ==
    \E s \in Sessions :
        /\ pc[s] = "done"
        /\ ex[s].path = "upload"
        /\ ex[s].custom_prompt # DefaultPrompt
        /\ ex[s].writes = <<"processing", "completed">>
        /\ ex[s].calls[1].sent # <<>>
        /\ ex[s].calls[1].sent[1].prompt = PyStr(ex[s].custom_prompt)

\* A stage result that is the raw text payload.
Unstructured(v) == "structured" \in DOMAIN v /\ v.structured = FALSE

\* C26: a stage that returned the raw text payload succeeded; after stage 1
\* or 2 the execution goes on to the next stage, which gets the payload as
\* its input and fails only for a reason of its own (the client, the
\* template, the generation call), never without making its call because
\* the input is unstructured.
C26_DegradedSuccessTolerated ==
    \A s \in Sessions :
        \A i \in 1..Len(ex[s].calls) :
            LET c == ex[s].calls[i] IN
            Unstructured(c.ret.result)
            => /\ c.ret.success
               /\ (i < 3 /\ Len(ex[s].calls) = i)
                  => pc[s] = <<"stage2", "stage3">>[i]
               /\ i < Len(ex[s].calls)
                  => LET d == ex[s].calls[i + 1] IN
                     /\ d.input = c.ret.result
                     /\ d.sent # <<>> => d.sent[1].prompt.v = c.ret.result
                     /\ d.sent = <<>>
                        => d.ret.error \in
                              {PyStr("Error initializing model"),
                               PyStr("Error generating task backlog")}

\* C26's case: stages 1 and 2 returned raw text and the Run is completed.
C26_Witness ==
    \E s \in Sessions :
        /\ pc[s] = "done"
        /\ ex[s].saved = "yes"
        /\ Unstructured(ex[s].calls[1].ret.result)
        /\ Unstructured(ex[s].calls[2].ret.result)
        /\ StatusOf(store, ex[s].video_name) = "completed"

\* C27: when a pipeline execution has returned, its video's name is not in
\* the session's processing_videos.
C27_ProcessingVideosInFlightOnly ==
    \A s \in Sessions :
        (pc[s] = "done" /\ ex[s].path \in PipelinePaths)
        => ex[s].video_name \notin processing_videos[s]

\* C28: an execution that got no video reference from storage invoked no
\* stage and wrote no document, and the script run that met the failure
\* ended there, leaving the store and processing_videos as they were.
C28_StorageFailureChangesNothing ==
    /\ [](\A s \in Sessions :
             (ex[s].path \in PipelinePaths /\ ex[s].url = PyNone)
             => /\ pc[s] = "done"
                /\ ex[s].calls = <<>>
                /\ ex[s].writes = <<>>)
    /\ [][\A s \in Sessions :
             (/\ pc[s] = "idle"
              /\ ex'[s].path \in PipelinePaths
              /\ ex'[s].url = PyNone)
             => /\ store' = store
                /\ processing_videos' = processing_videos]_vars

\* C28's case: with a Run document in the store, a rerun's lookup of the
\* URL has failed.
C28_Witness ==
    \E s \in Sessions :
        /\ pc[s] = "done"
        /\ ex[s].path = "rerun"
        /\ ex[s].url = PyNone
        /\ store # <<>>

\* C29: the prompt of every stage 1 generation call holds the URL of the
\* video, with and without a custom prompt.
C29_Stage1PromptHoldsUrl ==
    \A s \in Sessions :
        (ex[s].calls # <<>> /\ ex[s].calls[1].sent # <<>>)
        => LET prompt == ex[s].calls[1].sent[1].prompt
               url == ex[s].url
           IN  /\ prompt.t = "str"
               /\ \E i \in 1..Len(prompt.s) :
                     \E j \in i..Len(prompt.s) :
                        SubSeq(prompt.s, i, j) = url.s

\* The pipeline alone: nothing of app.py calls the fallback executor.
Spec == Init /\ [][Next]_vars

\* The pipeline and the deletion of videos.
SpecDelete == Init /\ [][DeleteNext]_vars

\* The pipeline with the script runs of the sessions interleaved.
SpecConcurrent == Init /\ [][ConcurrentNext]_vars

\* The regional fallback executor alone.
SpecFallback == Init /\ [][FallbackNext]_vars

\* The stage runner alone.
SpecStage == Init /\ [][StageNext]_vars

\* The regional fallback executor whose caller's thread keeps running: a
\* call under way takes its next step.
SpecFallbackFair ==
    Init /\ [][FallbackNext]_vars
         /\ WF_vars(\E outcome \in WorkOutcomes : FallbackTryRegion(outcome))

=============================================================================
